---- MODULE Spec2Model ----
(***************************************************************************)
(* The wildfire dashboard of advanced_wildfire_analysis.py: the data       *)
(* preparation function clean_and_prepare_data and the script run main()   *)
(* that Streamlit executes on the first visit and after every widget       *)
(* interaction.                                                            *)
(*                                                                         *)
(* Values.  A cell of a data frame is a record [k, n, s]:                  *)
(*   k = "none"  Python None (a missing property of a feature)            *)
(*   k = "nan"   float NaN                                                *)
(*   k = "num"   a finite float; n is the value in TENTHS (125 is 12.5)   *)
(*   k = "inf"   a non-finite float; n is its sign (1 or -1)              *)
(*   k = "int"   an int64 value (the result of astype(int)); n is it      *)
(*   k = "str"   a string; s is its sequence of tokens, a token being one  *)
(*               character ("1", ".", "-") or one opaque word             *)
(*               ("Lightning", "bad", "inf")                              *)
(* A data frame is a record [cols, index, data]: the set of column names,  *)
(* the row labels in row order, and per row a function from cols to cells. *)
(* Data frames are objects: they live in a heap (a sequence of frames) and *)
(* the program's variables hold references (positions in the heap), so     *)
(* that copying and in-place column assignment are distinct operations.    *)
(***************************************************************************)
EXTENDS Integers, Sequences, FiniteSets, TLC

\* ------------------------------------------------------------------ bounds
\* The largest number of rows of an input data frame.
MaxRows == 2
\* The largest number of script runs (first visit plus interactions) of a session.
MaxRuns == 4
\* The largest number of records a dataset has beyond the smallest sample size.
MaxExcess == 1

\* ------------------------------------------------------------------- cells
None == [k |-> "none", n |-> 0, s |-> <<>>]
NaN == [k |-> "nan", n |-> 0, s |-> <<>>]
Num(t) == [k |-> "num", n |-> t, s |-> <<>>]
Inf(sign) == [k |-> "inf", n |-> sign, s |-> <<>>]
Int64(i) == [k |-> "int", n |-> i, s |-> <<>>]
Str(toks) == [k |-> "str", n |-> 0, s |-> toks]

\* A whole number a as a float cell value (in tenths).
Whole(a) == a * 10

\* pandas isna / notna on one cell: None and NaN are missing, inf is not.
isna(c) == c.k \in {"none", "nan"}
notna(c) == ~isna(c)

\* ------------------------------------------------- pd.to_numeric(errors='coerce')
DigitTokens == {"0", "1", "2", "3", "4", "5", "6", "7", "8", "9"}
DigitVal(tok) == CHOOSE d \in 0..9 : ToString(d) = tok

IsDigits(toks) == \A i \in 1..Len(toks) : toks[i] \in DigitTokens

\* The number a sequence of digits denotes.
DigitsValue(toks) ==
    LET value[i \in 0..Len(toks)] ==
            IF i = 0 THEN 0 ELSE value[i - 1] * 10 + DigitVal(toks[i])
    IN  value[Len(toks)]

\* The float the digits ip, a point and the digits fp denote, in tenths
\* (digits after the first fractional digit are below the resolution of the
\* model), or NaN when they are no float literal.
ParseFraction(ip, fp) ==
    IF IsDigits(ip) /\ IsDigits(fp) /\ Len(ip) + Len(fp) > 0
    THEN Num(Whole(DigitsValue(ip)) + (IF fp = <<>> THEN 0 ELSE DigitVal(fp[1])))
    ELSE NaN

ParseAtPoint(toks, p) == ParseFraction(SubSeq(toks, 1, p - 1), SubSeq(toks, p + 1, Len(toks)))

\* The float an unsigned literal denotes, or NaN when the tokens are none.
ParseUnsigned(toks) ==
    IF \A i \in 1..Len(toks) : toks[i] # "."
    THEN IF toks # <<>> /\ IsDigits(toks) THEN Num(Whole(DigitsValue(toks))) ELSE NaN
    ELSE ParseAtPoint(toks, CHOOSE i \in 1..Len(toks) : toks[i] = ".")

Negate(c, sign) == IF c.k = "num" THEN Num(sign * c.n) ELSE c

ParseSigned(body, sign) ==
    IF body = <<"inf">> THEN Inf(sign)
    ELSE IF body = <<"nan">> THEN NaN
    ELSE Negate(ParseUnsigned(body), sign)

\* The float a string denotes: an optional sign, then "inf", "nan" or an
\* unsigned literal; anything else does not parse and is coerced to NaN.
ParseFloat(toks) ==
    IF toks # <<>> /\ toks[1] \in {"-", "+"}
    THEN ParseSigned(Tail(toks), IF toks[1] = "-" THEN -1 ELSE 1)
    ELSE ParseSigned(toks, 1)

\* pd.to_numeric(column, errors='coerce') on one cell.
to_numeric(c) ==
    CASE c.k = "none" -> NaN
      [] c.k = "str" -> ParseFloat(c.s)
      [] OTHER -> c

\* ------------------------------------------------------------ data frames
ColumnNames == {"TOTALACRES", "FIREYEAR", "STATCAUSE"}

Frame(cols, index, data) == [cols |-> cols, index |-> index, data |-> data]
NRows(f) == Len(f.index)

\* df[col] = vals : column assignment in place (adds the column when new).
SetColumn(f, col, vals) ==
    [f EXCEPT !.cols = @ \cup {col},
              !.data = [i \in 1..NRows(f) |-> (col :> vals[i]) @@ f.data[i]]]

\* The positions of 1..n that are in keep, in increasing order.
Positions(n, keep) ==
    LET within[lo \in 1..(n + 1), hi \in 0..n] ==
            IF lo > hi THEN <<>>
            ELSE IF lo = hi THEN (IF lo \in keep THEN <<lo>> ELSE <<>>)
            ELSE within[lo, (lo + hi) \div 2] \o within[(lo + hi) \div 2 + 1, hi]
    IN  within[1, n]

\* df[mask] : a new frame of the rows whose mask is true, labels and order kept.
Select(f, mask) ==
    LET pos == Positions(NRows(f), {i \in 1..NRows(f) : mask[i]})
    IN  [f EXCEPT !.index = [j \in 1..Len(pos) |-> f.index[pos[j]]],
                  !.data = [j \in 1..Len(pos) |-> f.data[pos[j]]]]

\* ------------------------------------------------------------------- heap
\* A reference is a position in the heap; NoneRef is Python's None. The
\* state of a call is the heap, the reference its local df holds and
\* whether it has raised.
NoneRef == 0
Local(h, r) == [heap |-> h, ref |-> r, raised |-> FALSE]
Cur(st) == st.heap[st.ref]

\* df = <new frame f> : the local is bound to a new object.
Bind(st, f) == [st EXCEPT !.heap = Append(@, f), !.ref = Len(st.heap) + 1]
\* df[...] = ... : the object the local refers to is changed in place.
Assign(st, f) == [st EXCEPT !.heap[st.ref] = f]

\* Mutant of copy: df = gdf, the local is another name of the caller's object.
copy_alias(h, r) == Local(h, r)

\* df = gdf.copy() : a new object holding a deep copy (line 93).
copy(h, r) == Bind(Local(h, r), h[r])

\* ------------------------------------------------ steps of the preparation
\* Series.fillna(value) on one cell.
fillna(c, value) == IF isna(c) THEN value ELSE c

\* Series.astype(int) on one float cell: truncation toward zero. NaN and
\* inf have no integer value: the cast raises; CanCastInt tells.
CanCastInt(c) == c.k \in {"num", "int"}
astype_int(c) ==
    IF c.k = "num"
    THEN Int64(IF c.n >= 0 THEN c.n \div 10 ELSE -((-c.n) \div 10))
    ELSE c

\* cause_mapping (lines 109-122), keyed by the cause string.
cause_mapping ==
    (<<"Lightning">> :> <<"Natural">>) @@
    (<<"Equipment Use">> :> <<"Human">>) @@
    (<<"Smoking">> :> <<"Human">>) @@
    (<<"Campfire">> :> <<"Human">>) @@
    (<<"Debris Burning">> :> <<"Human">>) @@
    (<<"Railroad">> :> <<"Human">>) @@
    (<<"Arson">> :> <<"Human">>) @@
    (<<"Children">> :> <<"Human">>) @@
    (<<"Miscellaneous">> :> <<"Other">>) @@
    (<<"Fireworks">> :> <<"Human">>) @@
    (<<"Powerline">> :> <<"Human">>) @@
    (<<"Unknown">> :> <<"Unknown">>)

\* Mutant of cause_category: the fallback is 'Unknown'.
cause_category_unknown(c) ==
    IF c.k = "str" /\ c.s \in DOMAIN cause_mapping
    THEN Str(cause_mapping[c.s])
    ELSE Str(<<"Unknown">>)

\* lambda x: cause_mapping.get(x, 'Other') (line 123).
cause_category(c) ==
    IF c.k = "str" /\ c.s \in DOMAIN cause_mapping
    THEN Str(cause_mapping[c.s])
    ELSE Str(<<"Other">>)

\* The order of floats, on finite and infinite cells.
Less(a, b) ==
    CASE a.k = "inf" -> a.n = -1 /\ ~(b.k = "inf" /\ b.n = -1)
      [] b.k = "inf" -> b.n = 1
      [] OTHER -> a.n < b.n
LessEq(a, b) == a = b \/ Less(a, b)

\* bins and labels of pd.cut (lines 129-130).
bins == <<Num(Whole(0)), Num(Whole(10)), Num(Whole(100)), Num(Whole(1000)),
          Num(Whole(10000)), Inf(1)>>
labels == <<"Small (<10)", "Medium (10-100)", "Large (100-1000)",
            "Very Large (1000-10000)", "Mega (>10000)">>

\* pd.cut(x, bins, labels) on one cell, with pandas' defaults right=True and
\* include_lowest=False: bin i is (bins[i], bins[i+1]]; a value in no bin,
\* or a missing value, gets NaN.
cut(c) ==
    LET hit == {i \in 1..Len(labels) : Less(bins[i], c) /\ LessEq(c, bins[i + 1])}
    IN  IF c.k \in {"num", "inf"} /\ hit # {}
        THEN Str(<<labels[CHOOSE i \in hit : TRUE]>>)
        ELSE NaN

\* Lines 96-97.
CoerceAcresCell(c) == fillna(to_numeric(c), Num(0))
CoerceAcres(st) ==
    IF "TOTALACRES" \in Cur(st).cols
    THEN Assign(st, SetColumn(Cur(st), "TOTALACRES",
               [i \in 1..NRows(Cur(st)) |-> CoerceAcresCell(Cur(st).data[i]["TOTALACRES"])]))
    ELSE st

\* Line 100.
NumericYear(st) == Assign(st, SetColumn(Cur(st), "FIREYEAR",
               [i \in 1..NRows(Cur(st)) |-> to_numeric(Cur(st).data[i]["FIREYEAR"])]))
\* Line 101.
DropMissingYear(st) ==
    Bind(st, Select(Cur(st), [i \in 1..NRows(Cur(st)) |-> notna(Cur(st).data[i]["FIREYEAR"])]))
\* Line 103: the cast raises when a year has no integer value.
CastYear(st) ==
    IF \A i \in 1..NRows(Cur(st)) : CanCastInt(Cur(st).data[i]["FIREYEAR"])
    THEN Assign(st, SetColumn(Cur(st), "FIREYEAR",
               [i \in 1..NRows(Cur(st)) |-> astype_int(Cur(st).data[i]["FIREYEAR"])]))
    ELSE [st EXCEPT !.raised = TRUE]
\* Mutant of CoerceYear: a missing year is filled with 0, like the acres,
\* and its record kept.
CoerceYear_filled(st) ==
    IF "FIREYEAR" \in Cur(st).cols
    THEN CastYear(Assign(st, SetColumn(Cur(st), "FIREYEAR",
               [i \in 1..NRows(Cur(st)) |-> CoerceAcresCell(Cur(st).data[i]["FIREYEAR"])])))
    ELSE st

\* Lines 99-103.
CoerceYear(st) ==
    IF "FIREYEAR" \in Cur(st).cols
    THEN CastYear(DropMissingYear(NumericYear(st)))
    ELSE st

\* Mutant of FillCauseCell: the result of fillna is not kept.
FillCauseCell_dropped(c) == c

\* Line 107.
FillCauseCell(c) == fillna(c, Str(<<"Unknown">>))
FillCause(st) == Assign(st, SetColumn(Cur(st), "STATCAUSE",
               [i \in 1..NRows(Cur(st)) |-> FillCauseCell(Cur(st).data[i]["STATCAUSE"])]))
\* Mutant of CategorizeCause: the category is written over the cause.
CategorizeCause_overwrite(st) ==
    Assign(st, SetColumn(Cur(st), "STATCAUSE",
               [i \in 1..NRows(Cur(st)) |-> cause_category(Cur(st).data[i]["STATCAUSE"])]))

\* Line 123.
CategorizeCause(st) ==
    Assign(st, SetColumn(Cur(st), "CAUSE_CATEGORY",
               [i \in 1..NRows(Cur(st)) |-> cause_category(Cur(st).data[i]["STATCAUSE"])]))
\* Lines 106-123.
CleanCause(st) ==
    IF "STATCAUSE" \in Cur(st).cols
    THEN CategorizeCause(FillCause(st))
    ELSE st

\* Lines 126-131.
AddSizeCategory(st) ==
    IF "TOTALACRES" \in Cur(st).cols
    THEN Assign(st, SetColumn(Cur(st), "FIRE_SIZE_CATEGORY",
               [i \in 1..NRows(Cur(st)) |-> cut(Cur(st).data[i]["TOTALACRES"])]))
    ELSE st

\* What a call hands to its caller: the heap after it, the reference
\* returned (NoneRef for None, and when the call raised), whether it raised.
Return(st) ==
    [heap |-> st.heap, ret |-> IF st.raised THEN NoneRef ELSE st.ref, raised |-> st.raised]

\* Lines 105-133, reached when the year step has not raised.
CauseAndSize(st) == IF st.raised THEN st ELSE AddSizeCategory(CleanCause(st))

\* clean_and_prepare_data(gdf) on heap h (lines 87-133).
clean_and_prepare_data(h, gdf) ==
    IF gdf = NoneRef
    THEN [heap |-> h, ret |-> NoneRef, raised |-> FALSE]
    ELSE Return(CauseAndSize(CoerceYear(CoerceAcres(copy(h, gdf)))))

\* ----------------------------------------------------------------- inputs
\* Cell values a raw record can carry in each attribute: missing, NaN,
\* numbers on and around every bin edge, negative, fractional and
\* non-finite numbers, numeric and non-numeric text, the empty string.
AcresInputs ==
    {None, NaN, Inf(1), Str(<<>>), Str(<<"bad">>), Str(<<"1", "2", ".", "5">>),
     Str(<<"-", "3">>), Num(5), Num(125)}
    \cup {Num(Whole(a)) : a \in {-5, 0, 5, 10, 11, 100, 1000, 9999, 10000, 20000}}
YearInputs ==
    {None, NaN, Inf(1), Str(<<>>), Str(<<"x">>), Str(<<"2", "0", "2", "0">>),
     Str(<<"inf">>), Int64(2019), Num(Whole(2021)), Num(20205), Num(-15)}
CauseInputs ==
    {None, NaN, Str(<<>>), Str(<<"Meteor">>), Str(<<"lightning">>), Num(Whole(7))}
    \cup {Str(key) : key \in DOMAIN cause_mapping}

BaseRow ==
    [TOTALACRES |-> Num(Whole(50)), FIREYEAR |-> Int64(2020), STATCAUSE |-> Str(<<"Arson">>)]
\* The first record varies one attribute over all its values; the records
\* after it are drawn from a few kinds (kept, dropped, defaulted).
RowInputs ==
    {[BaseRow EXCEPT !.TOTALACRES = a] : a \in AcresInputs}
    \cup {[BaseRow EXCEPT !.FIREYEAR = y] : y \in YearInputs}
    \cup {[BaseRow EXCEPT !.STATCAUSE = c] : c \in CauseInputs}
    \cup {[TOTALACRES |-> Str(<<"bad">>), FIREYEAR |-> Str(<<"x">>), STATCAUSE |-> None]}
MoreRowInputs ==
    {BaseRow,
     [TOTALACRES |-> None, FIREYEAR |-> Str(<<"2", "0", "2", "1">>), STATCAUSE |-> None],
     [TOTALACRES |-> Str(<<"bad">>), FIREYEAR |-> Str(<<"x">>), STATCAUSE |-> None],
     [TOTALACRES |-> Num(Whole(10000)), FIREYEAR |-> None, STATCAUSE |-> Str(<<"Lightning">>)],
     [TOTALACRES |-> Num(Whole(-5)), FIREYEAR |-> Num(20205), STATCAUSE |-> Str(<<>>)],
     [TOTALACRES |-> Num(0), FIREYEAR |-> Inf(1), STATCAUSE |-> Str(<<"Meteor">>)]}

RowSeqs(n) ==
    IF n = 0 THEN {<<>>}
    ELSE {<<r>> \o t : r \in RowInputs, t \in [1..(n - 1) -> MoreRowInputs]}

\* The frame gpd.read_file gives for the records rows when the file carries
\* the attributes cols: a RangeIndex and one cell per record and column.
RawFrame(cols, rows) ==
    Frame(cols, [i \in 1..Len(rows) |-> i - 1],
          [i \in 1..Len(rows) |-> [c \in cols |-> rows[i][c]]])

InputFrames ==
    {RawFrame(cols, rows) :
        cols \in SUBSET ColumnNames, rows \in UNION {RowSeqs(n) : n \in 0..MaxRows}}

\* ------------------------------------------------------------------ state
VARIABLES
    heap,       \* the data frame objects
    heap0,      \* the heap as it was before the first call (for comparison)
    gdf,        \* reference to the loaded frame, or NoneRef
    df,         \* reference to the prepared frame, or NoneRef
    df2,        \* reference to the result of preparing df again, or NoneRef
    raised,     \* the last call of clean_and_prepare_data raised
    pc,         \* a caller of the function: "start", "prepared", "again";
                \* the dashboard: "idle", "shown", "failed", "error" (the
                \* preparation raised), "crashed" (the page raised)
    s3,         \* the frame the S3 object holds (a one-element sequence)
    cache,      \* st.cache_data of load_wildfire_data: <<>> when empty, else
                \* <<v>> with v the cached return value, <<>> for None or <<f>>
    page,       \* the page chosen in the sidebar
    runs,       \* script runs so far
    loadCalls,  \* executions of load_wildfire_data's body since the cache was cleared
    cleanCalls, \* calls of clean_and_prepare_data since the data was last loaded
    sample_size,    \* the map controls of the spatial page (lines 319-334)
    size_filter,
    year_filter,
    filtered,   \* the row labels of filtered_df after the filters (line 355)
    rendered    \* the row labels of filtered_df as handed to the rendering (line 360)

vars == <<heap, heap0, gdf, df, df2, raised, pc, s3, cache, page, runs, loadCalls, cleanCalls,
          sample_size, size_filter, year_filter, filtered, rendered>>
dashboard == <<s3, cache, page, runs, loadCalls, cleanCalls>>
controls == <<sample_size, size_filter, year_filter>>
drawn == <<filtered, rendered>>

\* st.slider("Sample Size", 100, 10000, 5000) (line 319).
SliderMin == 100
SliderMax == 10000
SliderDefault == 5000

Pages == <<"Advanced Overview", "Advanced Causes Analysis", "Advanced Spatial Analysis">>

\* No page has been shown: the controls are where the widgets start (lines
\* 319-334) and nothing is drawn.
Unopened ==
    /\ sample_size = SliderDefault
    /\ size_filter = "All Fires"
    /\ year_filter = "All Years"
    /\ filtered = {}
    /\ rendered = {}

\* A caller holds a raw frame, or None (the load failed).
Init ==
    /\ \E h \in {<<>>} \cup {<<f>> : f \in InputFrames} :
          /\ heap = h
          /\ heap0 = h
          /\ gdf = Len(h)
    /\ df = NoneRef
    /\ df2 = NoneRef
    /\ raised = FALSE
    /\ pc = "start"
    /\ s3 = <<>>
    /\ cache = <<>>
    /\ page = Pages[1]
    /\ runs = 0
    /\ loadCalls = 0
    /\ cleanCalls = 0
    /\ Unopened

\* target = <call> : the caller's view of a call result r.
Called(r, heapAfter, target, raisedAfter) ==
    /\ heapAfter = r.heap
    /\ target = r.ret
    /\ raisedAfter = r.raised

\* df = clean_and_prepare_data(gdf)
Prepare ==
    /\ pc = "start"
    /\ Called(clean_and_prepare_data(heap, gdf), heap', df', raised')
    /\ pc' = "prepared"
    /\ UNCHANGED <<heap0, gdf, df2>>
    /\ UNCHANGED <<dashboard, controls, drawn>>

\* clean_and_prepare_data(df): the function applied to its own output.
PrepareAgain ==
    /\ pc = "prepared"
    /\ ~raised
    /\ Called(clean_and_prepare_data(heap, df), heap', df2', raised')
    /\ pc' = "again"
    /\ UNCHANGED <<heap0, gdf, df>>
    /\ UNCHANGED <<dashboard, controls, drawn>>

Next == Prepare \/ PrepareAgain

Spec == Init /\ [][Next]_vars

\* ------------------------------------------------------------------ pages
\* The slider positions the model tries: the lowest ones, the default, the
\* highest.
SampleSizes == (SliderMin..(SliderMin + MaxExcess)) \cup {SliderDefault, SliderMax}

\* The options of the size selectbox (lines 322-325) and the category each
\* stands for (lines 340-346).
size_options ==
    <<"All Fires", "Small (<10 acres)", "Medium (10-100)", "Large (100-1000)",
      "Very Large (1000-10000)", "Mega (>10000)">>
size_mapping ==
    [o \in {size_options[i] : i \in 2..Len(size_options)} |->
        labels[CHOOSE i \in 1..Len(labels) : size_options[i + 1] = o]]

\* Lines 329-334: the options of the year selectbox, str(int(year)) of the
\* years of the frame.
available_years(f) == {f.data[i]["FIREYEAR"].n : i \in 1..NRows(f)}
year_options(f) ==
    IF "FIREYEAR" \in f.cols
    THEN {"All Years"} \cup {ToString(y) : y \in available_years(f)}
    ELSE {"All Years"}

\* int(year_filter) (line 351) for an option of the selectbox; every
\* option but "All Years" is the text of an integer, so ValueError (line
\* 353) does not arise.
year_int(f, option) == CHOOSE y \in available_years(f) : ToString(y) = option

\* Lines 339-347.
FilterBySize(f, option) ==
    IF option # "All Fires" /\ "FIRE_SIZE_CATEGORY" \in f.cols
    THEN Select(f, [i \in 1..NRows(f) |->
                       f.data[i]["FIRE_SIZE_CATEGORY"] = Str(<<size_mapping[option]>>)])
    ELSE f

\* Line 352: filtered_df[filtered_df['FIREYEAR'] == year_int].
FilterByYear(f, y) ==
    Select(f, [i \in 1..NRows(f) |-> f.data[i]["FIREYEAR"] = Int64(y)])

\* Lines 337-354: filtered_df after both filters. The year option was
\* computed from df (line 331), before any filter.
Filtered(f, size, year) ==
    IF year # "All Years" /\ "FIREYEAR" \in f.cols
    THEN FilterByYear(FilterBySize(f, size), year_int(f, year))
    ELSE FilterBySize(f, size)

\* The row labels of a frame.
Labels(f) == {f.index[i] : i \in 1..NRows(f)}

\* The sets of k of the positions 1..n.
Drops(n, k) ==
    LET S[j \in 0..k] ==
            IF j = 0 THEN {{}}
            ELSE {E \in {D \cup {x} : D \in S[j - 1], x \in 1..n} : Cardinality(E) = j}
    IN  S[k]

\* How many records a sample of n leaves out of frame f (line 357).
Excess(f, n) == IF NRows(f) > n THEN NRows(f) - n ELSE 0

\* Mutant of sample: no sample is drawn.
sample_skipped(f, n, drop) == f

\* Lines 357-358: filtered_df.sample(n=sample_size, random_state=42) when
\* the frame has more than n records. Which records the seeded generator
\* leaves out is the choice drop; the sample is a new frame. The order the
\* generator gives the sample is left out: the page is read as the set of
\* its records.
sample(f, n, drop) ==
    IF NRows(f) > n
    THEN Select(f, [i \in 1..NRows(f) |-> i \notin drop])
    ELSE f

\* Series.value_counts() counts the values that are not missing; .index[0]
\* of an empty count raises IndexError.
NoCounts(f, col) == \A i \in 1..NRows(f) : isna(f.data[i][col])

\* show_advanced_overview(df) (lines 135-235): whether it raises. Line 179
\* takes value_counts().index[0] when the frame has records; lines 190-191
\* divide by len(df).
show_advanced_overview(f) ==
    \/ "STATENAME" \in f.cols /\ NRows(f) > 0 /\ NoCounts(f, "STATENAME")
    \/ "TOTALACRES" \in f.cols /\ NRows(f) = 0

\* show_advanced_causes_analysis(df) (lines 237-304): whether it raises.
\* The aggregation of lines 283-286 names the column FIREYEAR whether or
\* not the frame has it (KeyError).
show_advanced_causes_analysis(f) ==
    /\ "STATCAUSE" \in f.cols
    /\ "TOTALACRES" \in f.cols
    /\ "FIREYEAR" \notin f.cols

\* Lines 362-433 on the frame handed to the rendering: whether they raise.
\* Line 420 takes value_counts().index[0] of the state names.
RenderingRaises(f) == "STATENAME" \in f.cols /\ NoCounts(f, "STATENAME")

\* The page after a call of one of the three functions: the controls, the
\* records filtered and drawn, and whether the call raised.
Page(n, size, year, flt, out, failed) ==
    /\ sample_size' = n
    /\ size_filter' = size
    /\ year_filter' = year
    /\ filtered' = flt
    /\ rendered' = out
    /\ pc' = IF failed THEN "crashed" ELSE "shown"

\* A run that ends before any page is called.
NoPage(state) ==
    /\ pc' = state
    /\ filtered' = {}
    /\ rendered' = {}
    /\ UNCHANGED controls

\* Lines 357-433: a sample of the filtered frame flt, when it is larger
\* than n, is handed to the rendering.
SampleAndRender(flt, n, size, year) ==
    \E drop \in Drops(NRows(flt), Excess(flt, n)) :
        Page(n, size, year, Labels(flt), Labels(sample(flt, n, drop)),
             RenderingRaises(sample(flt, n, drop)))

\* show_advanced_spatial_analysis(df) (lines 306-433) with the controls at
\* the given positions.
show_advanced_spatial_analysis(f, n, size, year) ==
    SampleAndRender(Filtered(f, size, year), n, size, year)

\* -------------------------------------------------------------- dashboard
\* Mutant of load_wildfire_data: the function is not cached.
load_wildfire_data_uncached(c, fetched) ==
    [cache |-> <<fetched>>, value |-> fetched, ran |-> TRUE]

\* @st.cache_data load_wildfire_data() (lines 54-85). fetched is what the
\* body returns when it runs: <<f>> for the frame read from S3, <<>> for
\* None (the body caught an exception). The body runs only when the cache
\* is empty, and its return value, None included, is stored; a hit gives
\* the stored value. Result: the cache, the value, whether the body ran.
load_wildfire_data(c, fetched) ==
    IF c # <<>>
    THEN [cache |-> c, value |-> c[1], ran |-> FALSE]
    ELSE [cache |-> <<fetched>>, value |-> fetched, ran |-> TRUE]

\* Datasets the S3 object can hold: no record, one record, the two records
\* of the end-to-end example, a record whose year is not finite.
DatasetInputs ==
    {RawFrame(ColumnNames, rows) : rows \in
        {<<>>,
         <<BaseRow>>,
         <<[TOTALACRES |-> Str(<<"1", "2", ".", "5">>),
            FIREYEAR |-> Str(<<"2", "0", "2", "0">>),
            STATCAUSE |-> Str(<<"Lightning">>)],
           [TOTALACRES |-> Str(<<"bad">>), FIREYEAR |-> Str(<<"x">>), STATCAUSE |-> None]>>,
         <<[BaseRow EXCEPT !.FIREYEAR = Str(<<"inf">>)]>>}}

InitApp ==
    /\ heap = <<>>
    /\ heap0 = <<>>
    /\ gdf = NoneRef
    /\ df = NoneRef
    /\ df2 = NoneRef
    /\ raised = FALSE
    /\ pc = "idle"
    /\ s3 \in {<<f>> : f \in DatasetInputs}
    /\ cache = <<>>
    /\ page = Pages[1]
    /\ runs = 0
    /\ loadCalls = 0
    /\ cleanCalls = 0
    /\ Unopened

\* Lines 439-443: gdf = load_wildfire_data(), l being the outcome of the
\* call. The frames of the run before are garbage: the heap starts with
\* the frame the cache hands out.
Load(l) ==
    /\ cache' = l.cache
    /\ loadCalls' = IF l.ran THEN loadCalls + 1 ELSE loadCalls
    /\ heap0' = l.value
    /\ gdf' = Len(l.value)

\* Lines 441-443: no data, the run ends with an error message.
Failed(l) ==
    /\ l.value = <<>>
    /\ heap' = <<>>
    /\ df' = NoneRef
    /\ raised' = FALSE
    /\ cleanCalls' = IF l.ran THEN 0 ELSE cleanCalls
    /\ NoPage("failed")

\* Lines 458-465: the page the sidebar holds is shown for the prepared
\* frame f. c holds the positions of the map controls.
Dispatch(p, f, c) ==
    CASE p = Pages[1] -> Page(SliderDefault, "All Fires", "All Years", {}, {},
                              show_advanced_overview(f))
      [] p = Pages[2] -> Page(SliderDefault, "All Fires", "All Years", {}, {},
                              show_advanced_causes_analysis(f))
      [] p = Pages[3] -> /\ c[3] \in year_options(f)
                         /\ show_advanced_spatial_analysis(f, c[1], c[2], c[3])

\* Lines 446-465: df = clean_and_prepare_data(gdf), then the page is shown
\* unless the call raised.
Show(p, l, c) ==
    /\ l.value # <<>>
    /\ Called(clean_and_prepare_data(l.value, 1), heap', df', raised')
    /\ cleanCalls' = IF l.ran THEN 1 ELSE cleanCalls + 1
    /\ IF raised' THEN NoPage("error") ELSE Dispatch(p, heap'[df'], c)

Run(p, l, c) ==
    /\ runs < MaxRuns
    /\ runs' = runs + 1
    /\ page' = p
    /\ Load(l)
    /\ Failed(l) \/ Show(p, l, c)
    /\ UNCHANGED <<df2, s3>>

\* One run of the script, main() (lines 435-465), with the page the
\* sidebar holds and the map controls at c; ok tells whether a fetch from
\* S3 would succeed.
main(p, ok, c) == Run(p, load_wildfire_data(cache, IF ok THEN s3 ELSE <<>>), c)

\* Where the map controls are when the spatial page is first shown.
StartControls == <<SliderDefault, "All Fires", "All Years">>

\* A browser opens (or reloads) the dashboard: a new session, whose
\* sidebar holds the first page.
Visit == \E ok \in BOOLEAN : main(Pages[1], ok, StartControls)

\* The sidebar (line 454) is there once the frame was prepared, whether or
\* not the page then raised.
SidebarShown == pc \in {"shown", "crashed"}

\* The user picks a page in the sidebar (line 454): the script runs again.
SelectPage ==
    /\ SidebarShown
    /\ \E i \in 1..Len(Pages), ok \in BOOLEAN :
          Pages[i] # page /\ main(Pages[i], ok, StartControls)

\* The user moves a map control of the spatial page (lines 319-332) to one
\* of the positions it offers: the script runs again.
ChangeMapControl ==
    /\ SidebarShown
    /\ page = Pages[3]
    /\ \E ok \in BOOLEAN, n \in SampleSizes, i \in 1..Len(size_options),
          year \in year_options(heap[df]) :
          main(page, ok, <<n, size_options[i], year>>)

\* A data refresh: the cache of load_wildfire_data is cleared.
ClearCache ==
    /\ cache # <<>>
    /\ cache' = <<>>
    /\ loadCalls' = 0
    /\ UNCHANGED <<heap, heap0, gdf, df, df2, raised, pc, s3, page, runs, cleanCalls>>
    /\ UNCHANGED <<controls, drawn>>

NextApp == Visit \/ SelectPage \/ ChangeMapControl \/ ClearCache

SpecApp == InitApp /\ [][NextApp]_vars

\* ------------------------------------------------- the pages on large frames
\* Records with a state name: a fire of 50 acres in 2020, a fire of 20000
\* acres in 2019.
PageRow == ("STATENAME" :> Str(<<"California">>)) @@ BaseRow
MegaRow ==
    [PageRow EXCEPT !.TOTALACRES = Num(Whole(20000)), !.FIREYEAR = Int64(2019)]

\* n records, the first m of them the large fire.
Records(n, m) == [i \in 1..n |-> IF i <= m THEN MegaRow ELSE PageRow]

\* Datasets around the lowest sample size, with and without a large fire.
LargeRecords ==
    {Records(n, m) : n \in (SliderMin - 1)..(SliderMin + MaxExcess), m \in 0..1}
\* Small datasets: no record, one record, a record whose year is malformed,
\* a record without a state name.
SmallRecords ==
    {<<>>, <<PageRow>>, <<[PageRow EXCEPT !.FIREYEAR = Str(<<"x">>)]>>,
     <<[PageRow EXCEPT !.STATENAME = None]>>}
\* The attributes a file may carry; the large datasets carry all of them.
PageColumns ==
    {ColumnNames \cup {"STATENAME"}, ColumnNames, {"STATCAUSE", "TOTALACRES", "STATENAME"},
     {"FIREYEAR", "STATENAME"}}
PageDatasets ==
    {RawFrame(cols, rows) : cols \in PageColumns, rows \in SmallRecords}
    \cup {RawFrame(ColumnNames \cup {"STATENAME"}, rows) : rows \in LargeRecords}

InitPages ==
    /\ \E f \in PageDatasets :
          /\ heap = <<f>>
          /\ heap0 = <<f>>
    /\ gdf = 1
    /\ df = NoneRef
    /\ df2 = NoneRef
    /\ raised = FALSE
    /\ pc = "start"
    /\ s3 = <<>>
    /\ cache = <<>>
    /\ page = Pages[1]
    /\ runs = 0
    /\ loadCalls = 0
    /\ cleanCalls = 0
    /\ Unopened

\* Lines 458-465 after df = clean_and_prepare_data(gdf) returned: page p is
\* shown with the map controls at c.
Open(p, c) ==
    /\ page' = p
    /\ Dispatch(p, heap[df], c)
    /\ UNCHANGED <<heap, heap0, gdf, df, df2, raised, s3, cache, runs, loadCalls, cleanCalls>>

Returned == pc = "prepared" /\ ~raised

OpenOverview ==
    /\ Returned
    /\ Open(Pages[1], StartControls)
OpenCauses ==
    /\ Returned
    /\ Open(Pages[2], StartControls)
OpenSpatial ==
    /\ Returned
    /\ \E n \in SampleSizes, i \in 1..Len(size_options), year \in year_options(heap[df]) :
          Open(Pages[3], <<n, size_options[i], year>>)

NextPages == Prepare \/ OpenOverview \/ OpenCauses \/ OpenSpatial

SpecPages == InitPages /\ [][NextPages]_vars

\* ========================================================== the claims
\* The prepared frame and the raw frame of the first call, and the raw
\* record an output record came from (row label l is raw record l + 1).
Out == heap[df]
In == heap0[gdf]
InRow(j) == In.data[Out.index[j] + 1]
OutRows == 1..NRows(Out)
Prepared(col) == df # NoneRef /\ col \in In.cols

\* The size category as the specification words it: bin i holds the values
\* from bins[i] on and below bins[i+1]; the last bin has no upper end.
LowerInclusiveLabel(a) ==
    labels[CHOOSE i \in 1..Len(labels) :
              /\ LessEq(bins[i], a)
              /\ i = Len(labels) \/ Less(a, bins[i + 1])]

\* C1: every output record's fire_size_category is the lower-inclusive,
\* upper-exclusive bin of its total_acres: [0,10) Small, [10,100) Medium,
\* [100,1000) Large, [1000,10000) Very Large, [10000,inf) Mega.
C1_SizeCategoryLowerInclusive ==
    Prepared("TOTALACRES") =>
        \A j \in OutRows :
            LET a == Out.data[j]["TOTALACRES"]
            IN  a.k \in {"num", "inf"} /\ LessEq(Num(0), a) =>
                    Out.data[j]["FIRE_SIZE_CATEGORY"] = Str(<<LowerInclusiveLabel(a)>>)

\* Raw total_acres values that are missing or no number.
NonNumericAcres == {None, NaN, Str(<<>>), Str(<<"bad">>)}

\* C2: every output record's total_acres is a number >= 0 whatever the
\* input was, and a missing or non-numeric input gives exactly 0.
C2_AcresNonNegative ==
    Prepared("TOTALACRES") =>
        \A j \in OutRows :
            LET a == Out.data[j]["TOTALACRES"]
            IN  /\ a.k \in {"num", "inf"}
                /\ LessEq(Num(0), a)
                /\ InRow(j)["TOTALACRES"] \in NonNumericAcres => a = Num(0)

\* Raw year values that are missing or malformed.
MalformedYears == {None, NaN, Str(<<>>), Str(<<"x">>)}

\* C3: the output holds exactly the input records whose year can be coerced
\* to a number, in input order, and every output year is an integer.
C3_YearFilter ==
    Prepared("FIREYEAR") =>
        /\ \A j \in OutRows : Out.data[j]["FIREYEAR"].k = "int"
        /\ \A j \in OutRows : InRow(j)["FIREYEAR"] \notin MalformedYears
        /\ \A i \in 1..NRows(In) :
              In.data[i]["FIREYEAR"] \notin MalformedYears =>
                  \E j \in OutRows : Out.index[j] = In.index[i]
        /\ \A j, k \in OutRows : j < k => Out.index[j] < Out.index[k]

C3_Witness ==
    /\ Prepared("FIREYEAR")
    /\ NRows(In) = 2
    /\ NRows(Out) = 1
    /\ Out.index = <<1>>
    /\ Out.data[1]["FIREYEAR"] = Int64(2021)

\* The lookup table as the specification gives it.
HumanCauses ==
    {"Equipment Use", "Smoking", "Campfire", "Debris Burning", "Railroad", "Arson",
     "Children", "Fireworks", "Powerline"}
TableCategory(c) ==
    IF c.k # "str" \/ Len(c.s) # 1 THEN "Other"
    ELSE CASE c.s[1] = "Lightning" -> "Natural"
           [] c.s[1] \in HumanCauses -> "Human"
           [] c.s[1] = "Miscellaneous" -> "Other"
           [] c.s[1] = "Unknown" -> "Unknown"
           [] OTHER -> "Other"

\* C4: every output record's cause_category is the table's value for its
\* (defaulted) cause, any cause not in the table gives Other, and a record
\* whose input cause is missing gets Unknown.
C4_CauseCategory ==
    Prepared("STATCAUSE") =>
        \A j \in OutRows :
            /\ Out.data[j]["CAUSE_CATEGORY"] = Str(<<TableCategory(Out.data[j]["STATCAUSE"])>>)
            /\ InRow(j)["STATCAUSE"] \in {None, NaN} =>
                   Out.data[j]["CAUSE_CATEGORY"] = Str(<<"Unknown">>)

C4_Witness ==
    /\ Prepared("STATCAUSE")
    /\ \E j \in OutRows :
          /\ InRow(j)["STATCAUSE"] = Str(<<"Meteor">>)
          /\ Out.data[j]["CAUSE_CATEGORY"] = Str(<<"Other">>)
    /\ \E j \in OutRows :
          /\ InRow(j)["STATCAUSE"] = None
          /\ Out.data[j]["CAUSE_CATEGORY"] = Str(<<"Unknown">>)

\* C5: an input cause that is absent (null) or the empty string comes out
\* as "Unknown"; a non-empty input cause is left unchanged.
C5_NullOrEmptyCauseUnknown ==
    Prepared("STATCAUSE") =>
        \A j \in OutRows :
            Out.data[j]["STATCAUSE"] =
                IF InRow(j)["STATCAUSE"] \in {None, NaN, Str(<<>>)}
                THEN Str(<<"Unknown">>)
                ELSE InRow(j)["STATCAUSE"]

\* C5, amended: an input cause that is null (None or NaN) comes out as
\* "Unknown"; every other input cause, the empty string included, is left
\* unchanged.
C5_NullCauseUnknown ==
    Prepared("STATCAUSE") =>
        \A j \in OutRows :
            Out.data[j]["STATCAUSE"] =
                IF InRow(j)["STATCAUSE"] \in {None, NaN}
                THEN Str(<<"Unknown">>)
                ELSE InRow(j)["STATCAUSE"]

C5_Witness ==
    /\ Prepared("STATCAUSE")
    /\ NRows(Out) = 2
    /\ InRow(1)["STATCAUSE"] = Str(<<>>)
    /\ Out.data[1]["STATCAUSE"] = Str(<<>>)
    /\ InRow(2)["STATCAUSE"] = None
    /\ Out.data[2]["STATCAUSE"] = Str(<<"Unknown">>)

\* C6: every output record has a fire_size_category that is one of the
\* five categories.
C6_SizeCategoryDefined ==
    Prepared("TOTALACRES") =>
        \A j \in OutRows :
            \E i \in 1..Len(labels) : Out.data[j]["FIRE_SIZE_CATEGORY"] = Str(<<labels[i]>>)

\* C7: clean_and_prepare_data never raises, whatever the field values.
C7_NeverRaises == ~raised

\* C8: preparing the prepared frame again gives the same frame: the same
\* records with the same values in every column.
C8_Idempotent ==
    pc = "again" =>
        /\ ~raised
        /\ (df = NoneRef) = (df2 = NoneRef)
        /\ df # NoneRef => heap[df2] = heap[df]

C8_Witness ==
    /\ pc = "again"
    /\ df2 # NoneRef
    /\ df2 # df
    /\ NRows(heap[df2]) = 1
    /\ heap[df2].cols = ColumnNames \cup {"CAUSE_CATEGORY", "FIRE_SIZE_CATEGORY"}
    /\ NRows(In) = 2
    /\ heap[df] # In

\* C10: the call leaves its input as it was: every frame that existed
\* before the call has the same records, columns and values after it.
C10_InputUnchanged ==
    /\ Len(heap) >= Len(heap0)
    /\ \A r \in 1..Len(heap0) : heap[r] = heap0[r]

C10_Witness ==
    /\ pc = "prepared"
    /\ df # NoneRef
    /\ NRows(Out) < NRows(In)
    /\ \E j \in OutRows : Out.data[j] # InRow(j)
    /\ heap[gdf] = heap0[gdf]

\* C9: across the interactions that follow one load of the dataset,
\* clean_and_prepare_data runs at most once.
C9_CleanOncePerLoad == cleanCalls <= 1

\* C9, amended: in a script run that finds the dataset in the cache (an
\* interaction, or a reload, without a data refresh) the body of
\* load_wildfire_data does not run again and the cache keeps its value,
\* while clean_and_prepare_data runs once more whenever the cached value
\* is a frame.
C9_LoadOncePerRefresh ==
    [][runs' = runs + 1 /\ cache # <<>> =>
          /\ loadCalls' = loadCalls
          /\ cache' = cache
          /\ cleanCalls' = IF cache[1] # <<>> THEN cleanCalls + 1 ELSE cleanCalls]_vars

C9_Witness ==
    /\ pc = "shown"
    /\ page = Pages[3]
    /\ runs = 3
    /\ loadCalls = 1
    /\ cleanCalls = 3

\* What the spatial page drew: the state after show_advanced_spatial_analysis
\* was called, whether or not the rendering then raised.
SpatialDrawn == page = Pages[3] /\ pc \in {"shown", "crashed"}

\* The records of the prepared frame the two selections ask for: a size
\* option other than "All Fires" keeps the records of that size category, a
\* year option other than "All Years" keeps the records of that year; a
\* selection on a column the frame lacks keeps every record.
SizeSelected(j) ==
    \/ size_filter = "All Fires"
    \/ "FIRE_SIZE_CATEGORY" \notin Out.cols
    \/ /\ Out.data[j]["FIRE_SIZE_CATEGORY"].k = "str"
       /\ Out.data[j]["FIRE_SIZE_CATEGORY"].s[1] = size_mapping[size_filter]
YearSelected(j) ==
    \/ year_filter = "All Years"
    \/ "FIREYEAR" \notin Out.cols
    \/ ToString(Out.data[j]["FIREYEAR"].n) = year_filter
Selected == {Out.index[j] : j \in {i \in OutRows : SizeSelected(i) /\ YearSelected(i)}}

Min(a, b) == IF a <= b THEN a ELSE b

\* C11: on the spatial page the filtered subset is the records the size
\* and year selections ask for, the records handed to the rendering are
\* among them, and there are min(|filtered|, sample_size) of them: all of
\* the filtered subset when it has at most sample_size records, exactly
\* sample_size when it has more.
C11_SampleAfterFilters ==
    SpatialDrawn =>
        /\ filtered = Selected
        /\ rendered \subseteq filtered
        /\ Cardinality(rendered) = Min(Cardinality(filtered), sample_size)
        /\ Cardinality(filtered) <= sample_size => rendered = filtered

\* A sample was drawn from a subset both selections had filtered.
C11_Witness ==
    /\ SpatialDrawn
    /\ size_filter # "All Fires"
    /\ year_filter # "All Years"
    /\ Cardinality(filtered) > sample_size
    /\ Cardinality(rendered) = sample_size
    /\ rendered # filtered

\* C12: every page renders to completion, without raising, for every
\* prepared frame and every position of the controls, also when the
\* prepared frame (overview) or the filtered subset (spatial page) has no
\* record.
C12_PagesNeverRaise == pc # "crashed"

====
